---- MODULE Spec2Model ----
(***************************************************************************)
(* go-toml-config: typed settings declared in a ConfigSet (a wrapper       *)
(* around flag.FlagSet) and overlaid from a TOML document by               *)
(* ConfigSet.Parse / ConfigSet.loadTomlTree (src/config.go).               *)
(*                                                                         *)
(* Text is modelled as a sequence of one-character strings, so that        *)
(* joining, formatting, parsing and the regular expressions of             *)
(* buildLoadError are computed character by character.                     *)
(* The nil error is the empty text; every error the program builds has a   *)
(* non-empty text.                                                         *)
(***************************************************************************)
EXTENDS Integers, Sequences, FiniteSets, TLC

\* ------------------------------------------------------------------ text

Nil == <<>>

StartsWith(s, p) == Len(s) >= Len(p) /\ SubSeq(s, 1, Len(p)) = p

EndsWith(s, p) == Len(s) >= Len(p) /\ SubSeq(s, Len(s) - Len(p) + 1, Len(s)) = p

DropFirst(s, n) == SubSeq(s, n + 1, Len(s))

\* strings.Join(segs, sep)
RECURSIVE Join(_, _)
Join(segs, sep) ==
    IF Len(segs) = 0 THEN <<>>
    ELSE IF Len(segs) = 1 THEN segs[1]
    ELSE segs[1] \o sep \o Join(Tail(segs), sep)

Dot == <<".">>

\* the class \s of Go's regexp: [\t\n\f\r ]
WhiteSpace == {" ", "\t", "\n", "\f", "\r"}

DigitChars == <<"0", "1", "2", "3", "4", "5", "6", "7", "8", "9">>

IsDigit(c) == \E i \in 1..10 : DigitChars[i] = c

DigitVal(c) == (CHOOSE i \in 1..10 : DigitChars[i] = c) - 1

AllDigits(s) == \A i \in 1..Len(s) : IsDigit(s[i])

\* ------------------------------------------------------------------ values
\* A value is [k, n, s]: k the Go type, n its number (bool: 0/1, float64:
\* tenths, duration: seconds), s its text (string values; also the digits of
\* an integer too wide for 32-bit integers).

Val(k, n, s) == [k |-> k, n |-> n, s |-> s]

BoolV(b) == Val("bool", IF b THEN 1 ELSE 0, <<>>)
IntV(k, n) == Val(k, n, <<>>)
StringV(s) == Val("string", 0, s)
FloatV(tenths) == Val("float64", tenths, <<>>)
DurationV(secs) == Val("duration", secs, <<>>)

\* ------------------------------------------------------------------ fmt

RECURSIVE NatStr(_)
NatStr(n) ==
    IF n < 10 THEN <<DigitChars[n + 1]>>
    ELSE NatStr(n \div 10) \o <<DigitChars[(n % 10) + 1]>>

IntStr(n) == IF n < 0 THEN <<"-">> \o NatStr(-n) ELSE NatStr(n)

\* %v of a float64 (shortest decimal form): no fraction when it is whole
FloatStr(t) ==
    LET a == IF t < 0 THEN -t ELSE t
        sign == IF t < 0 THEN <<"-">> ELSE <<>>
    IN  sign \o NatStr(a \div 10) \o
        (IF a % 10 = 0 THEN <<>> ELSE <<".", DigitChars[(a % 10) + 1]>>)

\* fmt.Sprintf("%v", value) of a scalar the TOML parser produced
Sprintf(value) ==
    CASE value.k = "bool" -> IF value.n = 1 THEN <<"t", "r", "u", "e">>
                             ELSE <<"f", "a", "l", "s", "e">>
      [] value.k = "int64" -> IntStr(value.n)
      [] value.k = "float64" -> FloatStr(value.n)
      [] OTHER -> value.s

\* strconv.Quote of a text without quotes, backslashes or control characters
Quote(s) == <<"\"">> \o s \o <<"\"">>

\* ------------------------------------------------------------------ strconv
\* The flag and strconv packages are the standard library the ConfigSet wraps.
\* They are modelled with the error texts the regular expressions of
\* buildLoadError and TestBuildLoadError expect from them
\* ("no such flag -NAME", "strconv.ParseInt: parsing \"TEXT\": invalid syntax").
\* A result is [e, n, s]: e is "ok", "syntax" or "range".
\* The document texts of this model carry no base prefix (0x, 0), exponent or
\* special float (inf, nan), so base 0 selects base 10.

Int64MaxText == <<"9","2","2","3","3","7","2","0","3","6","8","5","4","7","7","5","8","0","7">>
Int64CutoffText == <<"9","2","2","3","3","7","2","0","3","6","8","5","4","7","7","5","8","0","8">>
Uint64MaxText == <<"1","8","4","4","6","7","4","4","0","7","3","7","0","9","5","5","1","6","1","5">>

RECURSIVE StripZeros(_)
StripZeros(s) == IF Len(s) > 1 /\ s[1] = "0" THEN StripZeros(Tail(s)) ELSE s

\* a > b for two texts of decimal digits
DecGreater(a, b) ==
    LET x == StripZeros(a)
        y == StripZeros(b)
    IN  \/ Len(x) > Len(y)
        \/ /\ Len(x) = Len(y)
           /\ \E i \in 1..Len(x) :
                /\ SubSeq(x, 1, i - 1) = SubSeq(y, 1, i - 1)
                /\ DigitVal(x[i]) > DigitVal(y[i])

RECURSIVE DecVal(_)
DecVal(s) ==
    IF Len(s) = 0 THEN 0
    ELSE DecVal(SubSeq(s, 1, Len(s) - 1)) * 10 + DigitVal(s[Len(s)])

\* the number of a digit text; beyond nine digits it is kept as its text
Num(e, neg, digits) ==
    LET d == StripZeros(digits)
    IN  IF Len(d) <= 9
        THEN [e |-> e, n |-> IF neg THEN -DecVal(d) ELSE DecVal(d), s |-> <<>>]
        ELSE [e |-> e, n |-> 0, s |-> IF neg THEN <<"-">> \o d ELSE d]

\* strconv.ParseUint(s, 0, 64)
ParseUint(s) ==
    IF s = <<>> \/ ~AllDigits(s) THEN [e |-> "syntax", n |-> 0, s |-> <<>>]
    ELSE IF DecGreater(s, Uint64MaxText) THEN Num("range", FALSE, Uint64MaxText)
    ELSE Num("ok", FALSE, s)

\* strconv.ParseInt(s, 0, 64)
ParseInt(s) ==
    IF s = <<>> THEN [e |-> "syntax", n |-> 0, s |-> <<>>]
    ELSE LET neg == s[1] = "-"
             body == IF s[1] \in {"+", "-"} THEN Tail(s) ELSE s
             un == ParseUint(body)
         IN  IF un.e = "syntax" THEN un
             ELSE IF ~neg /\ DecGreater(body, Int64MaxText)
                  THEN Num("range", FALSE, Int64MaxText)
             ELSE IF neg /\ DecGreater(body, Int64CutoffText)
                  THEN Num("range", TRUE, Int64CutoffText)
             ELSE Num("ok", neg, body)

TrueTexts == {<<"1">>, <<"t">>, <<"T">>, <<"T","R","U","E">>, <<"t","r","u","e">>,
              <<"T","r","u","e">>}

FalseTexts == {<<"0">>, <<"f">>, <<"F">>, <<"F","A","L","S","E">>,
               <<"f","a","l","s","e">>, <<"F","a","l","s","e">>}

\* strconv.ParseBool(s)
ParseBool(s) ==
    IF s \in TrueTexts THEN [e |-> "ok", n |-> 1, s |-> <<>>]
    ELSE IF s \in FalseTexts THEN [e |-> "ok", n |-> 0, s |-> <<>>]
    ELSE [e |-> "syntax", n |-> 0, s |-> <<>>]

\* strconv.ParseFloat(s, 64) of a decimal text: sign, digits, fraction.
\* The number is in tenths: the model's texts carry one fraction digit at most;
\* a number of more than eight digits is kept as its text.
ParseFloat(s) ==
    LET neg == s # <<>> /\ s[1] = "-"
        body == IF s # <<>> /\ s[1] \in {"+", "-"} THEN Tail(s) ELSE s
        dots == {i \in 1..Len(body) : body[i] = "."}
        cut == IF dots = {} THEN Len(body) + 1 ELSE CHOOSE i \in dots : \A j \in dots : i <= j
        ip == SubSeq(body, 1, cut - 1)
        fp == SubSeq(body, cut + 1, Len(body))
        tenths == DecVal(StripZeros(ip)) * 10 + (IF fp = <<>> THEN 0 ELSE DigitVal(fp[1]))
    IN  IF ~(AllDigits(ip) /\ AllDigits(fp) /\ Len(ip) + Len(fp) > 0)
        THEN [e |-> "syntax", n |-> 0, s |-> <<>>]
        ELSE IF Len(StripZeros(ip)) <= 8
        THEN [e |-> "ok", n |-> IF neg THEN -tenths ELSE tenths, s |-> <<>>]
        ELSE [e |-> "ok", n |-> 0, s |-> s]

\* (*NumError).Error(): "strconv." + Func + ": parsing " + Quote(Num) + ": " + Err
NumError(fn, s, e) ==
    <<"s","t","r","c","o","n","v",".">> \o fn
    \o <<":"," ","p","a","r","s","i","n","g"," ">> \o Quote(s) \o <<":"," ">>
    \o (IF e = "syntax" THEN <<"i","n","v","a","l","i","d"," ","s","y","n","t","a","x">>
        ELSE <<"v","a","l","u","e"," ","o","u","t"," ","o","f"," ","r","a","n","g","e">>)

\* ------------------------------------------------------------------ time
\* time.ParseDuration: [-+]?([0-9]*(\.[0-9]*)?[a-z]+)+ ; the number is in
\* seconds and the units of the model's texts are s, m and h.

UnitSeconds(u) ==
    CASE u = <<"s">> -> 1
      [] u = <<"m">> -> 60
      [] u = <<"h">> -> 3600
      [] OTHER -> 0

\* the length of the longest prefix of s whose characters are all in/out of [0-9.]
RECURSIVE Span(_, _, _)
Span(s, digits, dotToo) ==
    IF s = <<>> THEN 0
    ELSE LET numeric == IsDigit(s[1]) \/ (dotToo /\ s[1] = ".")
         IN  IF numeric = digits THEN 1 + Span(Tail(s), digits, dotToo) ELSE 0

InvalidDuration(orig) ==
    <<"t","i","m","e",":"," ","i","n","v","a","l","i","d"," ","d","u","r","a","t","i","o","n"," ">> \o orig

RECURSIVE DurationLoop(_, _, _)
DurationLoop(s, orig, acc) ==
    IF s = <<>> THEN [err |-> Nil, n |-> acc]
    ELSE IF ~(s[1] = "." \/ IsDigit(s[1])) THEN [err |-> InvalidDuration(orig), n |-> 0]
    ELSE LET pre == Span(s, TRUE, FALSE)
             s1 == DropFirst(s, pre)
             hasDot == s1 # <<>> /\ s1[1] = "."
             s2 == IF hasDot THEN Tail(s1) ELSE s1
             post == IF hasDot THEN Span(s2, TRUE, FALSE) ELSE 0
             s3 == DropFirst(s2, post)
             ulen == Span(s3, FALSE, TRUE)
             u == SubSeq(s3, 1, ulen)
             digits == SubSeq(s, 1, pre)
             whole == IF pre <= 9 THEN DecVal(digits) ELSE 0
             frac == IF post > 0 THEN DigitVal(s2[1]) ELSE 0
         IN  IF (pre = 0 /\ post = 0) \/ (pre > 0 /\ DecGreater(digits, Int64MaxText))
             THEN [err |-> InvalidDuration(orig), n |-> 0]
             ELSE IF ulen = 0
                  THEN [err |-> <<"t","i","m","e",":"," ","m","i","s","s","i","n","g"," ","u","n","i","t"," ","i","n"," ","d","u","r","a","t","i","o","n"," ">> \o orig,
                        n |-> 0]
             ELSE IF UnitSeconds(u) = 0
                  THEN [err |-> <<"t","i","m","e",":"," ","u","n","k","n","o","w","n"," ","u","n","i","t"," ">> \o u
                                \o <<" ","i","n"," ","d","u","r","a","t","i","o","n"," ">> \o orig,
                        n |-> 0]
             ELSE DurationLoop(DropFirst(s3, ulen), orig,
                               acc + whole * UnitSeconds(u) + (frac * UnitSeconds(u)) \div 10)

ParseDuration(s) ==
    LET neg == s # <<>> /\ s[1] = "-"
        body == IF s # <<>> /\ s[1] \in {"+", "-"} THEN Tail(s) ELSE s
        r == DurationLoop(body, s, 0)
    IN  IF body = <<"0">> THEN [err |-> Nil, n |-> 0]
        ELSE IF body = <<>> THEN [err |-> InvalidDuration(s), n |-> 0]
        ELSE IF r.err # Nil THEN r
        ELSE [err |-> Nil, n |-> IF neg THEN -r.n ELSE r.n]

\* ------------------------------------------------------------------ flag
\* A declared setting (flag.Flag) is [type, def, val]: its Go type, the
\* default it was declared with and its current value.

Types == {"bool", "int", "int64", "uint", "uint64", "string", "float64", "duration"}

\* Value.Set of the flag package, by type: the parsed value is stored
\* whether or not the parse failed (*i = intValue(v); return err).
ValueSet(type, text) ==
    CASE type = "bool" ->
            LET r == ParseBool(text)
            IN  [val |-> Val("bool", r.n, r.s),
                 err |-> IF r.e = "ok" THEN Nil
                         ELSE NumError(<<"P","a","r","s","e","B","o","o","l">>, text, r.e)]
      [] type \in {"int", "int64"} ->
            LET r == ParseInt(text)
            IN  [val |-> Val(type, r.n, r.s),
                 err |-> IF r.e = "ok" THEN Nil
                         ELSE NumError(<<"P","a","r","s","e","I","n","t">>, text, r.e)]
      [] type \in {"uint", "uint64"} ->
            LET r == ParseUint(text)
            IN  [val |-> Val(type, r.n, r.s),
                 err |-> IF r.e = "ok" THEN Nil
                         ELSE NumError(<<"P","a","r","s","e","U","i","n","t">>, text, r.e)]
      [] type = "float64" ->
            LET r == ParseFloat(text)
            IN  [val |-> Val("float64", r.n, r.s),
                 err |-> IF r.e = "ok" THEN Nil
                         ELSE NumError(<<"P","a","r","s","e","F","l","o","a","t">>, text, r.e)]
      [] type = "duration" ->
            LET r == ParseDuration(text)
            IN  [val |-> DurationV(r.n), err |-> r.err]
      [] OTHER -> [val |-> StringV(text), err |-> Nil]

Declared(flags) == DOMAIN flags

\* a mutant of FlagSetSet: a name that is not declared becomes a new string
\* setting holding the text
FlagSetSetCreating(flags, name, text) ==
    IF name \notin Declared(flags)
    THEN [flags |-> (name :> [type |-> "string", def |-> StringV(text), val |-> StringV(text)])
                    @@ flags,
          err |-> Nil]
    ELSE LET r == ValueSet(flags[name].type, text)
         IN  [flags |-> [flags EXCEPT ![name].val = r.val], err |-> r.err]

\* a mutant of FlagSetSet: a name that is not declared falls back on some
\* declared setting
FlagSetSetFallback(flags, name, text) ==
    IF Declared(flags) = {}
    THEN [flags |-> flags,
          err |-> <<"n","o"," ","s","u","c","h"," ","f","l","a","g"," ","-">> \o name]
    ELSE LET n == IF name \in Declared(flags) THEN name
                  ELSE CHOOSE m \in Declared(flags) : TRUE
             r == ValueSet(flags[n].type, text)
         IN  [flags |-> [flags EXCEPT ![n].val = r.val], err |-> r.err]

\* flag.FlagSet.Set(name, value) on the settings of one ConfigSet
FlagSetSet(flags, name, text) ==
    IF name \notin Declared(flags)
    THEN [flags |-> flags,
          err |-> <<"n","o"," ","s","u","c","h"," ","f","l","a","g"," ","-">> \o name]
    ELSE LET r == ValueSet(flags[name].type, text)
         IN  [flags |-> [flags EXCEPT ![name].val = r.val], err |-> r.err]

\* ------------------------------------------------------------------ buildLoadError

MissingFlagPrefix == <<"n","o"," ","s","u","c","h"," ","f","l","a","g"," ","-">>

\* the longest run of non-whitespace characters at the head of s: ([^\s]+)
RECURSIVE NonSpaceRun(_)
NonSpaceRun(s) ==
    IF s = <<>> \/ s[1] \in WhiteSpace THEN <<>>
    ELSE <<s[1]>> \o NonSpaceRun(Tail(s))

\* ^no such flag -([^\s]+)
MissingFlagMatches(e) ==
    /\ StartsWith(e, MissingFlagPrefix)
    /\ NonSpaceRun(DropFirst(e, Len(MissingFlagPrefix))) # <<>>

ParsingOpen == <<" ","p","a","r","s","i","n","g"," ","\"">>
InvalidSyntaxClose == <<"\"",":"," ","i","n","v","a","l","i","d"," ","s","y","n","t","a","x">>

NoNewline(s) == \A i \in 1..Len(s) : s[i] # "\n"

\* ^.+ parsing "(.+)": invalid syntax$
InvalidSyntaxMatches(e) ==
    \E i \in 1..(Len(e) - Len(ParsingOpen)) :
        LET rest == DropFirst(e, i + Len(ParsingOpen))
        IN  /\ SubSeq(e, i + 1, i + Len(ParsingOpen)) = ParsingOpen
            /\ EndsWith(rest, InvalidSyntaxClose)
            /\ Len(rest) > Len(InvalidSyntaxClose)
            /\ NoNewline(e)

buildLoadError(path, err) ==
    IF MissingFlagMatches(err)
    THEN LET after == DropFirst(err, Len(MissingFlagPrefix))
             name == NonSpaceRun(after)
         IN  name \o <<" ","i","s"," ","n","o","t"," ","a"," ","v","a","l","i","d"," ","c","o","n","f","i","g"," ","s","e","t","t","i","n","g">>
             \o DropFirst(after, Len(name))
    ELSE IF InvalidSyntaxMatches(err)
    THEN <<"T","h","e"," ","v","a","l","u","e"," ","f","o","r"," ">> \o path
         \o <<" ","i","s"," ","i","n","v","a","l","i","d">>
    ELSE err

\* ------------------------------------------------------------------ slices
\* A Go slice is [arr, len, cap] over a backing array of the heap (a sequence
\* of arrays); append writes in place while len < cap and otherwise copies
\* into a new array of twice the capacity (of capacity 1 from an empty one).

EmptySlice == [arr |-> 0, len |-> 0, cap |-> 0]

Elems(heap, sl) == IF sl.len = 0 THEN <<>> ELSE SubSeq(heap[sl.arr], 1, sl.len)

\* append(sl, x)
GoAppend(heap, sl, x) ==
    IF sl.len < sl.cap
    THEN [heap |-> [heap EXCEPT ![sl.arr][sl.len + 1] = x],
          sl |-> [sl EXCEPT !.len = sl.len + 1]]
    ELSE LET newcap == IF sl.cap = 0 THEN 1 ELSE 2 * sl.cap
             fresh == [i \in 1..newcap |->
                         IF i <= sl.len THEN heap[sl.arr][i]
                         ELSE IF i = sl.len + 1 THEN x ELSE <<>>]
         IN  [heap |-> Append(heap, fresh),
              sl |-> [arr |-> Len(heap) + 1, len |-> sl.len + 1, cap |-> newcap]]

\* ------------------------------------------------------------------ toml
\* A document is the set of its scalar leaves [path, val]; a TomlTree is a
\* position in it: [doc, at, ord, keys], the sub-tree under the key path `at`
\* of a document over the key names `keys`.
\* TomlTree.Keys ranges over a Go map, so the order of the keys of each tree is
\* arbitrary: `ord` gives, for each position with more than one key, the order
\* the key names come in during one load.

IsTree(v) == "doc" \in DOMAIN v

\* the key names in the order of the range over the map of the tree
KeyOrder(tree) == IF tree.at \in DOMAIN tree.ord THEN tree.ord[tree.at] ELSE tree.keys

\* a mutant of TreeKeys: only the first key of each tree
TreeKeysFirst(tree) ==
    LET ks == SelectSeq(KeyOrder(tree),
                        LAMBDA k : \E l \in tree.doc : StartsWith(l.path, Append(tree.at, k)))
    IN  IF ks = <<>> THEN ks ELSE <<Head(ks)>>

TreeKeys(tree) ==
    SelectSeq(KeyOrder(tree),
              LAMBDA k : \E l \in tree.doc : StartsWith(l.path, Append(tree.at, k)))

\* a mutant of TreeGet: a section is handed out as a scalar, the text of its
\* tree
TreeGetFlat(tree, key) ==
    LET p == Append(tree.at, key)
    IN  IF \E l \in tree.doc : l.path = p
        THEN (CHOOSE l \in tree.doc : l.path = p).val
        ELSE StringV(<<"&", "{", "}">>)

TreeGet(tree, key) ==
    LET p == Append(tree.at, key)
    IN  IF \E l \in tree.doc : l.path = p
        THEN (CHOOSE l \in tree.doc : l.path = p).val
        ELSE [tree EXCEPT !.at = p]

\* ------------------------------------------------------------------ loadTomlTree
\* The state of one load is [flags, policy, heap, log, err, proc]: the
\* settings and the error policy of the ConfigSet, the heap of path arrays,
\* the calls of Set made so far ([name, text, err, leaf]: the arguments, the
\* raw error and the leaf of the document the call was made for), the error
\* returned and the state of the process.

\* a mutant of AfterSet: a failed Set is handled the way flag.FlagSet.Parse
\* handles a failure, by the error policy of the FlagSet
AfterSetByPolicy(errorHandling, err) ==
    IF err = Nil \/ errorHandling = "ContinueOnError" THEN "running"
    ELSE IF errorHandling = "ExitOnError" THEN "exited"
    ELSE "panicked"

\* The process after c.Set(fullPath, ...) returned err: flag.FlagSet.Set hands
\* its error back to the caller under every error policy
AfterSet(errorHandling, err) == "running"

\* a mutant of Failed: no error ends the loop
FailedNever(err) == FALSE

\* `if err != nil`: the test that ends the loop and returns the error
Failed(err) == err # Nil

\* a mutant of LeafName: the key alone, without the sections above it
LeafNameFlat(heap, path, key) == key

\* strings.Join(append(path, key), ".")
LeafName(heap, path, key) ==
    LET a == GoAppend(heap, path, key)
    IN  Join(Elems(a.heap, a.sl), Dot)

\* the load after c.Set(name, text) returned r for one leaf of the document
SetReturned(st, heap, name, text, leaf, r) ==
    [flags |-> r.flags, policy |-> st.policy, heap |-> heap,
     log |-> Append(st.log, [name |-> name, text |-> text, err |-> r.err, leaf |-> leaf]),
     err |-> IF r.err = Nil THEN Nil ELSE buildLoadError(name, r.err),
     proc |-> AfterSet(st.policy, r.err)]

\* err := c.Set(fullPath, fmt.Sprintf("%v", value)) and the error built of it
SetLeaf(st, heap, name, text, leaf) ==
    SetReturned(st, heap, name, text, leaf, FlagSetSet(st.flags, name, text))

\* the error c.Set returned in the last call of the load
LastSetErr(st) == st.log[Len(st.log)].err

RECURSIVE LoadKeys(_, _, _, _)

\* the end of one iteration: `if err != nil { return ... }`, else the next key
NextKey(tree, keys, path, st, err) ==
    IF st.proc # "running" \/ Failed(err) THEN st
    ELSE LoadKeys(tree, Tail(keys), path, st)

\* after err := c.loadTomlTree(subtree, fullPath)
SubtreeLoaded(tree, keys, path, sub) == NextKey(tree, keys, path, sub, sub.err)

\* after err := c.Set(fullPath, ...)
LeafLoaded(tree, keys, path, st) == NextKey(tree, keys, path, st, LastSetErr(st))

\* one iteration of the loop, with fullPath := append(path, key) done (a1)
\* and value := tree.Get(key)
LoadKey(tree, keys, path, st, key, a1, value) ==
    IF IsTree(value)
    THEN SubtreeLoaded(tree, keys, path,
                       LoadKeys(value, TreeKeys(value), a1.sl, [st EXCEPT !.heap = a1.heap]))
    ELSE LeafLoaded(tree, keys, path,
                    SetLeaf(st, GoAppend(a1.heap, path, key).heap,
                            LeafName(a1.heap, path, key), Sprintf(value),
                            Append(tree.at, key)))

\* the loop `for _, key := range tree.Keys()` of loadTomlTree over the keys
\* not yet visited
LoadKeys(tree, keys, path, st) ==
    IF keys = <<>> THEN st
    ELSE LoadKey(tree, keys, path, st, Head(keys),
                 GoAppend(st.heap, path, Head(keys)), TreeGet(tree, Head(keys)))

\* c.loadTomlTree(tree, path)
loadTomlTree(flags, policy, tree, path) ==
    LoadKeys(tree, TreeKeys(tree), path,
             [flags |-> flags, policy |-> policy, heap |-> <<>>, log |-> <<>>,
              err |-> Nil, proc |-> "running"])

\* ------------------------------------------------------------------ bounds
\* The programs and documents the model runs.

MaxNodes == 5
MaxDecl == 2
MaxLoads == 2

A == <<"a">>
B == <<"b", " ", "c">>
KeyList == <<A, B>>
KeyNames == {KeyList[i] : i \in 1..Len(KeyList)}

Ok == <<"o", "k">>

\* the scalars of a document: bool, integer, float and string values
Scalars == {BoolV(TRUE), IntV("int64", 22), IntV("int64", -23), FloatV(261),
            StringV(Ok), StringV(<<>>), StringV(<<"1", "h">>),
            StringV(Int64CutoffText)}

\* the value a setting of each type is declared with
DefaultOf(type) ==
    CASE type = "bool" -> BoolV(FALSE)
      [] type = "string" -> StringV(<<"n", "o", "p", "e">>)
      [] type = "float64" -> FloatV(101)
      [] type = "duration" -> DurationV(5)
      [] OTHER -> IntV(type, 10)

\* the key paths of the leaves of a forest, each put under the key k
Under(k, forest) == {<<k>> \o p : p \in forest}

Prefixes(forest) == UNION {{SubSeq(p, 1, i) : i \in 1..Len(p)} : p \in forest}

NodeCount(forest) == Cardinality(Prefixes(forest))

\* the sets of leaf paths of the trees of at most n nodes whose top keys are
\* among the first k of KeyList
RECURSIVE Forests(_, _)
Forests(k, n) ==
    IF k = 0 \/ n = 0 THEN {{}}
    ELSE LET key == KeyList[k]
         IN  Forests(k - 1, n)
             \cup {{<<key>>} \cup r : r \in Forests(k - 1, n - 1)}
             \cup UNION {{Under(key, f) \cup r : r \in Forests(k - 1, n - 1 - NodeCount(f))} :
                         f \in Forests(Len(KeyList), n - 1) \ {{}}}

DocOf(forest, val) == {[path |-> p, val |-> val] : p \in forest}

TreeDocs == {DocOf(f, StringV(Ok)) : f \in Forests(Len(KeyList), MaxNodes) \ {{}}}

ConfigSets == {"global", "app"}
Policies == {"ContinueOnError", "ExitOnError", "PanicOnError"}

DeclNameList == <<A, B, Join(<<A, A>>, Dot), Join(<<A, A, A, A>>, Dot)>>

Decl(c, type, name) == [c |-> c, type |-> type, name |-> name]

\* the declarations of a program: at most MaxDecl settings of distinct names
RECURSIVE ProgramsFrom(_, _, _, _)
ProgramsFrom(c, types, i, n) ==
    IF n = 0 \/ i > Len(DeclNameList) THEN {<<>>}
    ELSE ProgramsFrom(c, types, i + 1, n)
         \cup {<<Decl(c, ty, DeclNameList[i])>> \o rest :
                 ty \in types, rest \in ProgramsFrom(c, types, i + 1, n - 1)}

\* a program imports one of the two packages: src/config.go or src/tomlcfg.go
Packages == {"config", "tomlcfg"}

World(policy, program, doc) ==
    [pkg |-> "config", policy |-> policy, program |-> program, doc |-> doc]

\* programs of string and int settings against the trees of at most MaxNodes nodes
TraversalWorlds ==
    {World("ContinueOnError", pr, d) :
        pr \in ProgramsFrom("app", {"string", "int"}, 1, MaxDecl), d \in TreeDocs}

\* one setting of each type against a document of one leaf of each kind
ConversionWorlds ==
    {World("ExitOnError", <<Decl("app", ty, A)>>, DocOf({<<A>>}, s)) :
        ty \in Types, s \in Scalars}

\* each error policy and each ConfigSet against a known and an unknown leaf
PolicyWorlds ==
    {World(p, <<Decl(c, ty, A)>>, DocOf({<<k>>}, StringV(Ok))) :
        p \in Policies, c \in ConfigSets, ty \in {"string", "int"}, k \in KeyNames}

\* a name declared twice, in one ConfigSet or in two
RedeclareWorlds ==
    {World("ContinueOnError", <<Decl(c1, t1, A), Decl(c2, t2, A)>>, DocOf({<<A>>}, StringV(Ok))) :
        c1 \in ConfigSets, c2 \in ConfigSets, t1 \in {"string", "int"}, t2 \in {"string", "int"}}

\* a second document for a second load: a setting against a leaf that
\* converts in the first document and does not in the second
ReloadWorlds ==
    {World("ContinueOnError", <<Decl("app", ty, A)>>, DocOf({<<A>>}, IntV("int64", 22)))
        @@ [other |-> DocOf({<<A>>}, s)] :
        ty \in {"int", "uint64", "float64"},
        s \in {StringV(Ok), StringV(Int64CutoffText), IntV("int64", -23)}}

\* programs of the package of src/tomlcfg.go: one setting of each type in each
\* ConfigSet, or a duration setting in each of the two, against a leaf and
\* against a section
TomlcfgWorlds ==
    {[World("ExitOnError", pr, DocOf({p}, StringV(<<"1", "h">>))) EXCEPT !.pkg = "tomlcfg"] :
        pr \in {<<Decl(c, ty, A)>> : c \in ConfigSets, ty \in Types}
               \cup {<<Decl("app", "duration", A), Decl("global", ty, A)>> :
                        ty \in {"duration", "string"}},
        p \in {<<A>>, <<A, A>>}}

Worlds ==
    TraversalWorlds \cup ConversionWorlds \cup PolicyWorlds \cup RedeclareWorlds
        \cup ReloadWorlds \cup TomlcfgWorlds

\* the files: a document, an empty document, a file that is not TOML and no file
GoodPath == <<"f">>
EmptyPath == <<"e">>
InvalidPath == <<"x">>
MissingPath == <<"n">>
FilePaths == {GoodPath, EmptyPath, InvalidPath, MissingPath}

\* the path of the second document of the programs that have one
OtherPath == <<"g">>

FileSystem(doc) ==
    [p \in FilePaths |->
        IF p = GoodPath THEN [kind |-> "toml", doc |-> doc]
        ELSE IF p = EmptyPath THEN [kind |-> "toml", doc |-> {}]
        ELSE IF p = InvalidPath THEN [kind |-> "garbage", doc |-> {}]
        ELSE [kind |-> "missing", doc |-> {}]]

\* the orders TomlTree.Keys may return the key names in
Orders == {o \in [1..Len(KeyList) -> KeyNames] : \A i, j \in 1..Len(KeyList) : o[i] = o[j] => i = j}

\* the positions of the trees of a document: the root and the sections
Positions(doc) == UNION {{SubSeq(l.path, 1, i) : i \in 0..(Len(l.path) - 1)} : l \in doc}

\* the positions whose tree has more than one key
Branching(doc) ==
    {p \in Positions(doc) :
        Cardinality({k \in KeyNames : \E l \in doc : StartsWith(l.path, Append(p, k))}) > 1}

\* the orders of the keys of all the trees of a document during one load
KeyOrders(doc) == [Branching(doc) -> Orders]

\* ------------------------------------------------------------------ state

VARIABLES
    formal,         \* ConfigSet -> (name -> setting): the FlagSet's declared flags
    errorHandling,  \* ConfigSet -> the error policy it was built with
    fs,             \* the files
    program,        \* the declaration calls the program has still to make
    proc,           \* the process: "running", "exited" or "panicked"
    last,           \* the last call of Parse of src/config.go: receiver, path,
                    \* error returned, calls of Set, and the receiver's settings
                    \* before the call
    nloads,         \* the number of calls of Parse so far
    pkg             \* the package the program imports

vars == <<formal, errorHandling, fs, program, proc, last, nloads, pkg>>

NoFlags == <<>>

NoCall == [c |-> "none", path |-> <<>>, err |-> Nil, log |-> <<>>, before |-> NoFlags]

\* NewConfigSet(name, errorHandling): a FlagSet without flags
NewConfigSet(policy) == [flags |-> NoFlags, errorHandling |-> policy]

\* globalConfig = NewConfigSet(os.Args[0], flag.ExitOnError), and one
\* ConfigSet built by the program
Init ==
    \E w \in Worlds :
        /\ formal = [c \in ConfigSets |-> NewConfigSet("ExitOnError").flags]
        /\ errorHandling =
              [c \in ConfigSets |->
                  IF c = "global" THEN NewConfigSet("ExitOnError").errorHandling
                  ELSE NewConfigSet(w.policy).errorHandling]
        /\ fs = IF "other" \in DOMAIN w
                THEN FileSystem(w.doc) @@ (OtherPath :> [kind |-> "toml", doc |-> w.other])
                ELSE FileSystem(w.doc)
        /\ program = w.program
        /\ proc = "running"
        /\ last = NoCall
        /\ nloads = 0
        /\ pkg = w.pkg

\* ------------------------------------------------------------------ declarations

Setting(type, value) == [type |-> type, def |-> value, val |-> value]

\* flag.FlagSet.Var: a name declared twice panics ("flag redefined")
Var(c, name, type, value) ==
    IF name \in Declared(formal[c])
    THEN /\ proc' = "panicked"
         /\ UNCHANGED formal
    ELSE /\ formal' = [formal EXCEPT ![c] = (name :> Setting(type, value)) @@ formal[c]]
         /\ UNCHANGED proc

\* the next declaration call of the program: (c *ConfigSet) Bool, Int, ...
\* (the functions Bool, Int, ... of the package are the calls with c = "global")
Declare(c, type, name, value) ==
    /\ pkg = "config"
    /\ proc = "running"
    /\ program # <<>>
    /\ Head(program) = Decl(c, type, name)
    /\ Var(c, name, type, value)
    /\ program' = Tail(program)
    /\ UNCHANGED <<errorHandling, fs, last, nloads, pkg>>

ConfigSetBool(c, name, value) == Declare(c, "bool", name, value)
ConfigSetInt(c, name, value) == Declare(c, "int", name, value)
ConfigSetInt64(c, name, value) == Declare(c, "int64", name, value)
ConfigSetUint(c, name, value) == Declare(c, "uint", name, value)
ConfigSetUint64(c, name, value) == Declare(c, "uint64", name, value)
ConfigSetString(c, name, value) == Declare(c, "string", name, value)
ConfigSetFloat64(c, name, value) == Declare(c, "float64", name, value)
ConfigSetDuration(c, name, value) == Declare(c, "duration", name, value)

\* ------------------------------------------------------------------ Parse

NoSuchFile(path) ==
    <<"o","p","e","n"," ">> \o path
    \o <<":"," ","n","o"," ","s","u","c","h"," ","f","i","l","e"," ","o","r"," ","d","i","r","e","c","t","o","r","y">>

NotTomlFile(path) ==
    path \o <<" ","i","s"," ","n","o","t"," ","a"," ","v","a","l","i","d"," ","T","O","M","L"," ","f","i","l","e","."," ","S","e","e"," ","h","t","t","p","s",":","/","/","g","i","t","h","u","b",".","c","o","m","/","m","o","j","o","m","b","o","/","t","o","m","l">>

\* a mutant of ParseBody: the error of toml.Load is ignored
ParseBodyUnchecked(flags, policy, path, ord) ==
    IF fs[path].kind = "missing"
    THEN [flags |-> flags, err |-> NoSuchFile(path), log |-> <<>>, proc |-> "running"]
    ELSE loadTomlTree(flags, policy,
                      [doc |-> fs[path].doc, at |-> <<>>, ord |-> ord, keys |-> KeyList],
                      EmptySlice)

\* the body of (c *ConfigSet) Parse(path); ord is the order of the keys
ParseBody(flags, policy, path, ord) ==
    IF fs[path].kind = "missing"
    THEN [flags |-> flags, err |-> NoSuchFile(path), log |-> <<>>, proc |-> "running"]
    ELSE IF fs[path].kind = "garbage"
    THEN [flags |-> flags, err |-> NotTomlFile(path), log |-> <<>>, proc |-> "running"]
    ELSE loadTomlTree(flags, policy,
                      [doc |-> fs[path].doc, at |-> <<>>, ord |-> ord, keys |-> KeyList],
                      EmptySlice)

\* a mutant of ParseReturns: a load that fails restores the settings
ParseReturnsRestoring(c, path, r) ==
    /\ formal' = IF r.err = Nil THEN [formal EXCEPT ![c] = r.flags] ELSE formal
    /\ proc' = r.proc
    /\ last' = [c |-> c, path |-> path, err |-> r.err, log |-> r.log,
                before |-> formal[c]]

\* the return of c.Parse(path) with the outcome r of its body
ParseReturns(c, path, r) ==
    /\ formal' = [formal EXCEPT ![c] = r.flags]
    /\ proc' = r.proc
    /\ last' = [c |-> c, path |-> path, err |-> r.err, log |-> r.log,
                before |-> formal[c]]

\* Parse "must be called after all the config flags in the ConfigSet have been
\* defined": the program makes its declaration calls first
ConfigSetParse(c, path) ==
    /\ pkg = "config"
    /\ path \in DOMAIN fs
    /\ proc = "running"
    /\ program = <<>>
    /\ nloads < MaxLoads
    /\ \E ord \in KeyOrders(fs[path].doc) :
          ParseReturns(c, path, ParseBody(formal[c], errorHandling[c], path, ord))
    /\ nloads' = nloads + 1
    /\ UNCHANGED <<errorHandling, fs, program, pkg>>

\* Parse(path): the load into the global ConfigSet
Parse(path) == ConfigSetParse("global", path)

\* ------------------------------------------------------------------ tomlcfg
\* The package of src/tomlcfg.go: the same declarations over flag.FlagSet,
\* and a Parse that sets the top-level keys only and drops the errors of Set.

\* the FlagSet a declaration method of the receiver c registers in:
\* Duration calls globalConfig.FlagSet.Duration, the others c.FlagSet.X
TomlcfgFlagSet(c, type) == IF type = "duration" THEN "global" ELSE c

\* the next declaration call of the program: (c *ConfigSet) Bool, Int, ...
TomlcfgDeclare(c, type, name, value) ==
    /\ pkg = "tomlcfg"
    /\ proc = "running"
    /\ program # <<>>
    /\ Head(program) = Decl(c, type, name)
    /\ Var(TomlcfgFlagSet(c, type), name, type, value)
    /\ program' = Tail(program)
    /\ UNCHANGED <<errorHandling, fs, last, nloads, pkg>>

TomlcfgBool(c, name, value) == TomlcfgDeclare(c, "bool", name, value)
TomlcfgInt(c, name, value) == TomlcfgDeclare(c, "int", name, value)
TomlcfgInt64(c, name, value) == TomlcfgDeclare(c, "int64", name, value)
TomlcfgUint(c, name, value) == TomlcfgDeclare(c, "uint", name, value)
TomlcfgUint64(c, name, value) == TomlcfgDeclare(c, "uint64", name, value)
TomlcfgString(c, name, value) == TomlcfgDeclare(c, "string", name, value)
TomlcfgFloat64(c, name, value) == TomlcfgDeclare(c, "float64", name, value)
TomlcfgDuration(c, name, value) == TomlcfgDeclare(c, "duration", name, value)

\* the text %v gives for a *toml.TomlTree: no number, bool or duration
TreeText == <<"&", "{", "}">>

\* fmt.Sprintf("%v", tomlTree.Get(key))
TomlcfgText(value) == IF IsTree(value) THEN TreeText ELSE Sprintf(value)

\* the loop `for _, key := range tomlTree.Keys()` of Parse over the keys not
\* yet visited: c.Set(key, ...), whose error is dropped
RECURSIVE TomlcfgSetKeys(_, _, _)
TomlcfgSetKeys(flags, tree, keys) ==
    IF keys = <<>> THEN flags
    ELSE TomlcfgSetKeys(FlagSetSet(flags, Head(keys),
                                   TomlcfgText(TreeGet(tree, Head(keys)))).flags,
                        tree, Tail(keys))

\* the settings after the body of Parse of src/tomlcfg.go
TomlcfgParseBody(flags, path, tree) ==
    IF fs[path].kind # "toml" THEN flags
    ELSE TomlcfgSetKeys(flags, tree, TreeKeys(tree))

\* (c *ConfigSet) Parse(path) of src/tomlcfg.go; the error it returns (of the
\* file or of its syntax, never of a setting) is not kept in the state
TomlcfgConfigSetParse(c, path) ==
    /\ pkg = "tomlcfg"
    /\ path \in DOMAIN fs
    /\ proc = "running"
    /\ program = <<>>
    /\ nloads < MaxLoads
    /\ \E ord \in KeyOrders(fs[path].doc) :
          formal' = [formal EXCEPT ![c] =
                        TomlcfgParseBody(formal[c], path,
                                         [doc |-> fs[path].doc, at |-> <<>>, ord |-> ord,
                                          keys |-> KeyList])]
    /\ nloads' = nloads + 1
    /\ UNCHANGED <<errorHandling, fs, program, proc, last, pkg>>

\* Parse(path) of src/tomlcfg.go
TomlcfgParse(path) == TomlcfgConfigSetParse("global", path)

DeclNames == {DeclNameList[i] : i \in 1..Len(DeclNameList)}

Next ==
    \/ \E c \in ConfigSets, name \in DeclNames : ConfigSetBool(c, name, DefaultOf("bool"))
    \/ \E c \in ConfigSets, name \in DeclNames : ConfigSetInt(c, name, DefaultOf("int"))
    \/ \E c \in ConfigSets, name \in DeclNames : ConfigSetInt64(c, name, DefaultOf("int64"))
    \/ \E c \in ConfigSets, name \in DeclNames : ConfigSetUint(c, name, DefaultOf("uint"))
    \/ \E c \in ConfigSets, name \in DeclNames : ConfigSetUint64(c, name, DefaultOf("uint64"))
    \/ \E c \in ConfigSets, name \in DeclNames : ConfigSetString(c, name, DefaultOf("string"))
    \/ \E c \in ConfigSets, name \in DeclNames : ConfigSetFloat64(c, name, DefaultOf("float64"))
    \/ \E c \in ConfigSets, name \in DeclNames : ConfigSetDuration(c, name, DefaultOf("duration"))
    \/ \E path \in FilePaths \cup {OtherPath} : Parse(path)
    \/ \E c \in ConfigSets \ {"global"}, path \in FilePaths \cup {OtherPath} :
          ConfigSetParse(c, path)
    \/ \E c \in ConfigSets, name \in DeclNames : TomlcfgBool(c, name, DefaultOf("bool"))
    \/ \E c \in ConfigSets, name \in DeclNames : TomlcfgInt(c, name, DefaultOf("int"))
    \/ \E c \in ConfigSets, name \in DeclNames : TomlcfgInt64(c, name, DefaultOf("int64"))
    \/ \E c \in ConfigSets, name \in DeclNames : TomlcfgUint(c, name, DefaultOf("uint"))
    \/ \E c \in ConfigSets, name \in DeclNames : TomlcfgUint64(c, name, DefaultOf("uint64"))
    \/ \E c \in ConfigSets, name \in DeclNames : TomlcfgString(c, name, DefaultOf("string"))
    \/ \E c \in ConfigSets, name \in DeclNames : TomlcfgFloat64(c, name, DefaultOf("float64"))
    \/ \E c \in ConfigSets, name \in DeclNames : TomlcfgDuration(c, name, DefaultOf("duration"))
    \/ \E path \in FilePaths \cup {OtherPath} : TomlcfgParse(path)
    \/ \E c \in ConfigSets \ {"global"}, path \in FilePaths \cup {OtherPath} :
          TomlcfgConfigSetParse(c, path)

Spec == Init /\ [][Next]_vars

\* ------------------------------------------------------------------ properties
\* The properties speak of the last call of Parse: its receiver's settings
\* now and before the call, the document at its path and its calls of Set.

Loaded == last.c # "none"

Now == formal[last.c]

Before == last.before

Doc == fs[last.path].doc

Calls == last.log

DottedName(p) == Join(p, Dot)

LeafPaths == {l.path : l \in Doc}

Visited == {Calls[i].leaf : i \in 1..Len(Calls)}

LeafValue(p) == (CHOOSE l \in Doc : l.path = p).val

\* the value of a leaf converted to the type of a setting
Converted(type, value) == ValueSet(type, Sprintf(value)).val

LastCallFailed == Calls # <<>> /\ Calls[Len(Calls)].err # Nil

\* C1: after Parse returns nil, each leaf of the document was passed to Set
\* exactly once, and every declared setting whose dotted name is the path of
\* a leaf holds that leaf's value converted to the setting's type
ScalarOverlay ==
    (Loaded /\ last.err = Nil) =>
        \A l \in Doc :
            /\ Cardinality({i \in 1..Len(Calls) : Calls[i].leaf = l.path}) = 1
            /\ DottedName(l.path) \in Declared(Now) =>
                  Now[DottedName(l.path)].val
                      = Converted(Now[DottedName(l.path)].type, l.val)

\* a load that returned nil and overlaid two settings, one of them nested
ScalarOverlayWitness ==
    /\ Loaded
    /\ last.err = Nil
    /\ Cardinality(Doc) = 2
    /\ \E l \in Doc : Len(l.path) > 1
    /\ \A l \in Doc :
          /\ DottedName(l.path) \in Declared(Now)
          /\ Now[DottedName(l.path)].val # Now[DottedName(l.path)].def

\* C2: the name of every call of Set is the keys of the leaf's ancestor
\* sections, outermost first, then the leaf's key, joined with '.'
DottedNameOfLeaf ==
    Loaded =>
        \A i \in 1..Len(Calls) :
            /\ Calls[i].leaf \in LeafPaths
            /\ Calls[i].name = DottedName(Calls[i].leaf)

\* a leaf three keys deep passed to Set after a leaf of another, finished
\* section
DottedNameOfLeafWitness ==
    /\ Loaded
    /\ \E i, j \in 1..Len(Calls) :
          /\ i < j
          /\ Len(Calls[i].leaf) >= 2
          /\ Len(Calls[j].leaf) >= 3
          /\ Calls[i].leaf[1] # Calls[j].leaf[1]
          /\ Calls[j].name = DottedName(Calls[j].leaf)

\* C3: after the first load of a freshly declared ConfigSet, every declared
\* setting that is not a leaf of the document holds its declared default
DefaultRetention ==
    (Loaded /\ nloads = 1) =>
        \A name \in Declared(Now) :
            name \notin {DottedName(p) : p \in LeafPaths} =>
                Now[name].val = Now[name].def

\* a first load that overlaid one setting and left a dotted one, whose section
\* the document does not have, at its default
DefaultRetentionWitness ==
    /\ Loaded
    /\ nloads = 1
    /\ \E name \in Declared(Now) : Now[name].val # Now[name].def
    /\ \E name \in Declared(Now) :
          /\ name \notin {DottedName(p) : p \in LeafPaths}
          /\ name = DottedName(<<A, A>>)
          /\ \A p \in LeafPaths : p[1] # A
          /\ Now[name].val = Now[name].def

\* C4: when a leaf whose dotted path has no declared setting is reached, the
\* error of Parse is "<dotted path> is not a valid config setting"
UnknownSettingMessage ==
    Loaded =>
        \A i \in 1..Len(Calls) :
            DottedName(Calls[i].leaf) \notin Declared(Before) =>
                last.err = DottedName(Calls[i].leaf) \o 
                    <<" ","i","s"," ","n","o","t"," ","a"," ","v","a","l","i","d"," ","c","o","n","f","i","g"," ","s","e","t","t","i","n","g">>

\* C5: when the text of a leaf cannot be converted to the type of the setting
\* declared at its dotted path, the error of Parse is "The value for <dotted
\* path> is invalid"
TypeMismatchMessage ==
    Loaded =>
        \A i \in 1..Len(Calls) :
            (DottedName(Calls[i].leaf) \in Declared(Before) /\ Calls[i].err # Nil) =>
                last.err = <<"T","h","e"," ","v","a","l","u","e"," ","f","o","r"," ">> \o DottedName(Calls[i].leaf) \o 
                    <<" ","i","s"," ","i","n","v","a","l","i","d">>

\* C6: only the last call of Set of a load may have failed, and the error of
\* Parse is then the translated error of that call; a load without a failed
\* call returns nil
StopsAtFirstFailure ==
    (Loaded /\ fs[last.path].kind = "toml") =>
        /\ \A i \in 1..Len(Calls) :
              Calls[i].err # Nil =>
                  /\ i = Len(Calls)
                  /\ last.err = buildLoadError(Calls[i].name, Calls[i].err)
        /\ ~LastCallFailed => last.err = Nil

\* a load that stopped at the second leaf it reached and never reached a
\* further leaf that has no declared setting
StopsAtFirstFailureWitness ==
    /\ Loaded
    /\ Len(Calls) >= 2
    /\ LastCallFailed
    /\ last.err # Nil
    /\ \E p \in LeafPaths \ Visited : DottedName(p) \notin Declared(Before)

\* C7: after a load that failed, every setting overlaid by a leaf visited
\* before the failing one holds the overlaid value, and every setting whose
\* leaf was not visited is as it was before the load
NoRollback ==
    (Loaded /\ LastCallFailed) =>
        /\ \A i \in 1..(Len(Calls) - 1) :
              Now[DottedName(Calls[i].leaf)].val
                  = Converted(Now[DottedName(Calls[i].leaf)].type, LeafValue(Calls[i].leaf))
        /\ \A name \in Declared(Now) :
              name \notin {DottedName(p) : p \in Visited} => Now[name] = Before[name]

\* a failed load with a setting overlaid before the failing leaf and a
\* declared setting whose leaf was never reached
NoRollbackWitness ==
    /\ Loaded
    /\ LastCallFailed
    /\ last.err # Nil
    /\ \E i \in 1..(Len(Calls) - 1) :
          Now[DottedName(Calls[i].leaf)].val # Before[DottedName(Calls[i].leaf)].val
    /\ \E p \in LeafPaths \ Visited : DottedName(p) \in Declared(Now)

\* C8: every failure of a load is the error Parse returns, and the process
\* runs on, under each error policy and for the global ConfigSet
ErrorsAreReturned ==
    Loaded =>
        /\ proc = "running"
        /\ fs[last.path].kind # "toml" => last.err # Nil
        /\ LastCallFailed => last.err # Nil

\* a failed call of Set in a ConfigSet built with PanicOnError
ErrorsAreReturnedWitness ==
    /\ Loaded
    /\ errorHandling[last.c] = "PanicOnError"
    /\ LastCallFailed
    /\ last.err # Nil
    /\ proc = "running"

ParseCreatesNoSetting ==
    [][nloads' # nloads =>
          \A c \in ConfigSets :
              /\ Declared(formal'[c]) = Declared(formal[c])
              /\ \A name \in Declared(formal[c]) :
                    /\ formal'[c][name].type = formal[c][name].type
                    /\ formal'[c][name].def = formal[c][name].def]_vars

\* a second load that reached a leaf without a declared setting
ParseCreatesNoSettingWitness ==
    /\ Loaded
    /\ nloads = 2
    /\ Before # NoFlags
    /\ \E i \in 1..Len(Calls) : Calls[i].name \notin Declared(Now)


\* the step of the next declaration call of a program of src/config.go
DeclarationCall == pkg = "config" /\ program # <<>> /\ program' = Tail(program)

\* C11: every declaration call succeeds, and a call for a name that is already
\* declared in the ConfigSet replaces the earlier setting: after the call the
\* process runs on and the name is bound to the setting just declared
DeclarationsAlwaysSucceed ==
    [][DeclarationCall =>
          /\ proc' = "running"
          /\ Head(program).name \in Declared(formal'[Head(program).c])
          /\ formal'[Head(program).c][Head(program).name]
                = Setting(Head(program).type, DefaultOf(Head(program).type))]_vars

\* the value the last successful call of Set of a load wrote to a setting,
\* and the value it had before the load where no call succeeded
WrittenBy(call, name, before) ==
    LET ok == {i \in 1..Len(call.log) : call.log[i].name = name /\ call.log[i].err = Nil}
    IN  IF ok = {} THEN before.val
        ELSE ValueSet(before.type, call.log[CHOOSE i \in ok : \A j \in ok : j <= i].text).val

\* C12: a load leaves each setting of its ConfigSet at the value of the last
\* call of Set that succeeded at its dotted path, and where none succeeded at
\* the value the setting had before: the value of an earlier successful Set,
\* or the declared default
NeverResets ==
    [][(pkg = "config" /\ nloads' # nloads) =>
          \A name \in Declared(formal[last'.c]) :
              formal'[last'.c][name].val
                  = WrittenBy(last', name, formal[last'.c][name])]_vars

\* C13: a declaration call on the ConfigSet a program built declares the name
\* in that ConfigSet and leaves the settings of the global ConfigSet as they
\* were, in both packages
RegistersInReceiver ==
    [][(program # <<>> /\ program' = Tail(program) /\ proc' = "running"
            /\ Head(program).c # "global") =>
          /\ Head(program).name \in Declared(formal'[Head(program).c])
          /\ formal'["global"] = formal["global"]]_vars

\* the paths of the sections of the document of the last load
SectionPaths == UNION {{SubSeq(p, 1, i) : i \in 1..(Len(p) - 1)} : p \in LeafPaths}

\* C14: no call of Set is made for a section: its path is not the leaf and
\* its dotted name not the name of any call, the error of Parse does not
\* report it, and a setting declared under its dotted name is as before
SectionsAreNotSet ==
    Loaded =>
        \A p \in SectionPaths :
            /\ \A i \in 1..Len(Calls) :
                  Calls[i].leaf # p /\ Calls[i].name # DottedName(p)
            /\ last.err # DottedName(p) \o 
                    <<" ","i","s"," ","n","o","t"," ","a"," ","v","a","l","i","d"," ","c","o","n","f","i","g"," ","s","e","t","t","i","n","g">>
            /\ last.err # <<"T","h","e"," ","v","a","l","u","e"," ","f","o","r"," ">> \o DottedName(p) \o 
                    <<" ","i","s"," ","i","n","v","a","l","i","d">>
            /\ DottedName(p) \in Declared(Now) =>
                  Now[DottedName(p)] = Before[DottedName(p)]

\* a load of a document with a section under the name of a declared setting,
\* which reported a leaf beneath the section
SectionsAreNotSetWitness ==
    /\ Loaded
    /\ \E p \in SectionPaths :
          /\ DottedName(p) \in Declared(Now)
          /\ Now[DottedName(p)].val = Now[DottedName(p)].def
          /\ \E q \in LeafPaths :
                /\ StartsWith(q, p)
                /\ last.err = DottedName(q) \o 
                    <<" ","i","s"," ","n","o","t"," ","a"," ","v","a","l","i","d"," ","c","o","n","f","i","g"," ","s","e","t","t","i","n","g">>

====
